---- MODULE Spec2Model ----
\* A state-machine model of lsst::meas::astrom::net::GlobalAstrometrySolution
\* (src/src/net/GlobalAstrometrySolution.cc), the orchestrator around the
\* astrometry.net solver.  One action per public method; the astrometry.net
\* calls (solver_, starxy_, index_ functions) are modelled by what they do to
\* the solver, star-list and index structures.
EXTENDS Integers, Sequences, FiniteSets, TLC

(***************************************************************************)
(* Program constants                                                       *)
(***************************************************************************)
\* int const USE_ALL_STARS_FOR_SOLUTION = -1;
USE_ALL_STARS_FOR_SOLUTION == -1

\* static int defaultMinimumNumberOfObjectsToAccept = 20;
defaultMinimumNumberOfObjectsToAccept == 20

\* A NULL pointer to a star list / an absent match: the empty sequence.
NULL == <<>>

\* astrometry.net parity codes (PARITY_NORMAL, PARITY_FLIP, PARITY_BOTH).
NORMAL_PARITY == 0
FLIPPED_PARITY == 1
UNKNOWN_PARITY == 2

(***************************************************************************)
(* Bounds of the model                                                     *)
(***************************************************************************)
\* Longest configured list of index files (policy entry "indexFile").
MaxFiles == 3
\* How many sources beyond the minimum count an input source list may hold.
MaxExtra == 2
\* How many indices the solver's list may hold before another solve attempt
\* is no longer explored (solver_add_index only ever appends).
MaxSolverIndexes == 3

(***************************************************************************)
(* Exception messages                                                      *)
(***************************************************************************)
OK == "ok"
ErrNoObjects == "Src list contains no objects"
ErrTooFewObjects == "Source list should contain at least %i objects"
ErrTooFewValid == "Source list only has %i valid objects, needs %i"
ErrIllegalN == "Illegal request. N must be greater than zero"
ErrNoStarlist == "Starlist hasn't been set yet"
ErrZeroStarlist == "Starlist has zero elements"
ErrLogLevel == "Logging level must be between 0 and 4"
ErrParity == "Illegal parity setting"
ErrNoIndex == "No index files loaded yet"
ErrAlreadySolved == "Solver indicated that a match has already been found. Do you need to reset?"
ErrScaleOrder == "Minimum image scale (%g) must be strictly less than max scale (%g)"
ErrNoScale == "No suitable indices found for given input parameters:No indices of a suitable scale were found"
ErrNoSky == "No suitable indices found for given input parameters:Probably the ra/dec range isn't covered"
ErrNotSolved == "No solution found yet. Did you run solve()?"
ErrStarlistUnset == "Starlist isn't set"
ErrTweak == "Tweaking failed"
ErrNoMetadata == "Index file has no metadata"
ErrNoColumn == "No meta data called %s found in index %s"
\* assert(maxSizePixels >= minSizePixels && minSizePixels > 0) of _callSolver
ErrAssert == "Assertion failed: minSizePixels > 0"
\* a read of _indexList[0] when the index list is empty
ErrCrash == "Segmentation fault"

(***************************************************************************)
(* Doubles.  A double is finite (an integer here) or one of NaN, +Inf,     *)
(* -Inf; isfinite() and the comparisons are those of IEEE arithmetic.      *)
(***************************************************************************)
Fin(v) == [k |-> "fin", v |-> v]
NaN == [k |-> "nan", v |-> 0]
PosInf == [k |-> "inf", v |-> 1]
NegInf == [k |-> "inf", v |-> -1]

isfinite(d) == d.k = "fin"

\* d >= 0 and d > 0 for a double already known to be finite or not:
\* comparisons with NaN are false, +Inf is greater than every number.
GeZero(d) == (d.k = "fin" /\ d.v >= 0) \/ (d.k = "inf" /\ d.v > 0)
GtZero(d) == (d.k = "fin" /\ d.v > 0) \/ (d.k = "inf" /\ d.v > 0)

(***************************************************************************)
(* Sources and star lists                                                  *)
(***************************************************************************)
Source(x, y, flux) == [x |-> x, y |-> y, flux |-> flux]

\* The i-th well-formed source of the test exposures: distinct positive
\* fluxes, not in flux order.  The two brightest lie in opposite corners of
\* the 40 x 30 pixel image, so that every bright subset of two or more stars
\* spans the image.
GoodSource(i) ==
    CASE i = 1 -> Source(Fin(40), Fin(30), Fin(39))
      [] i = 2 -> Source(Fin(0), Fin(0), Fin(40))
      [] OTHER -> Source(Fin((i * 7) % 41), Fin((i * 11) % 31), Fin(1 + ((i * 13) % 29)))

\* Sources that setStarlist must drop, one for each way of being invalid
\* (six ways, met by any six consecutive i).
BadSource(i) ==
    LET g == GoodSource(i) IN
    CASE i % 6 = 0 -> [g EXCEPT !.x = NaN]
      [] i % 6 = 1 -> [g EXCEPT !.flux = Fin(0)]
      [] i % 6 = 2 -> [g EXCEPT !.y = Fin(-1)]
      [] i % 6 = 3 -> [g EXCEPT !.flux = PosInf]
      [] i % 6 = 4 -> [g EXCEPT !.x = NegInf]
      [] OTHER     -> [g EXCEPT !.flux = Fin(-5)]

\* A source list of n sources whose entries at the positions in bad are invalid.
MakeSources(n, bad) == [i \in 1..n |-> IF i \in bad THEN BadSource(i) ELSE GoodSource(i)]

Reverse(s) == [i \in 1..Len(s) |-> s[Len(s) + 1 - i]]

MinObjects == defaultMinimumNumberOfObjectsToAccept

\* The source lists handed to setStarlist.
SourceLists ==
    LET big == MinObjects + MaxExtra
        mixed == MinObjects + 6
    IN
    << <<>>,                                            \* 1: empty
       MakeSources(MinObjects - 1, {}),                 \* 2: one too few
       MakeSources(MinObjects, {}),                     \* 3: exactly enough, all valid
       MakeSources(mixed, 3..8),                        \* 4: exactly enough survive
       MakeSources(mixed, 3..9),                        \* 5: one too few survive
       Reverse(MakeSources(big, {})) >>                 \* 6: more than enough, all valid

SourceIds == 1..Len(SourceLists)

\* A validity test that lets a flux of zero through
IsValidSource_FluxZero(s) ==
    /\ isfinite(s.x) /\ GeZero(s.x)
    /\ isfinite(s.y) /\ GeZero(s.y)
    /\ isfinite(s.flux) /\ GeZero(s.flux)

\* The validity test of setStarlist.
IsValidSource(s) ==
    /\ isfinite(s.x) /\ GeZero(s.x)
    /\ isfinite(s.y) /\ GeZero(s.y)
    /\ isfinite(s.flux) /\ GtZero(s.flux)

\* Step 1 of setStarlist: the valid sources, in input order.
ValidSources(vec) == SelectSeq(vec, IsValidSource)

\* starxy_sort_by_flux: descending flux (insertion of each star after the
\* stars at least as bright as it).
RECURSIVE InsertByFlux(_, _)
InsertByFlux(s, sorted) ==
    IF sorted = <<>> THEN <<s>>
    ELSE IF Head(sorted).flux.v >= s.flux.v
         THEN <<Head(sorted)>> \o InsertByFlux(s, Tail(sorted))
         ELSE <<s>> \o sorted

RECURSIVE starxy_sort_by_flux(_)
starxy_sort_by_flux(f) ==
    IF f = <<>> THEN <<>>
    ELSE InsertByFlux(f[Len(f)], starxy_sort_by_flux(SubSeq(f, 1, Len(f) - 1)))

\* For each source list, the star list setStarlist stores for it: the valid
\* sources, sorted by flux.
StoredField == [id \in SourceIds |-> starxy_sort_by_flux(ValidSources(SourceLists[id]))]

(***************************************************************************)
(* Image scales and quad sizes: non-negative reals in fixed point, a pair  *)
(* <<whole, millionths>>, so that 1e-6 and 3600*360 are both exact.        *)
(***************************************************************************)
Million == 1000 * 1000

Fx(whole) == <<whole, 0>>
FxLt(a, b) == a[1] < b[1] \/ (a[1] = b[1] /\ a[2] < b[2])
FxLe(a, b) == a = b \/ FxLt(a, b)
\* a * k for an integer k >= 0
FxTimes(a, k) == <<a[1] * k + ((a[2] * k) \div Million), (a[2] * k) % Million>>
\* a * 0.1
FxTenth(a) == <<a[1] \div 10, (((a[1] % 10) * Million) + a[2]) \div 10>>

\* setMinimumImageScale(1e-6) and setMaximumImageScale(3600*360) of setDefaultValues
DefaultMinimumImageScale == <<0, 1>>
DefaultMaximumImageScale == Fx(3600 * 360)

\* log(1e12), in thousandths: the default match threshold
LogOdds1e12 == 27631

\* Largest integer whose square is at most n (hypot of integer sides).
ISqrt(n) == CHOOSE r \in 0..(n + 1) : r * r <= n /\ (r + 1) * (r + 1) > n

(***************************************************************************)
(* Index files.  What index_load(.., INDEX_ONLY_LOAD_METADATA) reads from  *)
(* each configured path: the identifying triple, the range of quad sizes   *)
(* (arcsec) the index holds, the sky footprint of its healpix (degrees;    *)
(* healpix -1 is the whole sky), and the tag-along columns of its star     *)
(* tree.  ok = FALSE is a path whose metadata cannot be loaded.            *)
(***************************************************************************)
IndexFile(name) ==
    CASE name = "A"  -> [ok |-> TRUE, indexid |-> 1, healpix |-> 0, hpnside |-> 1,
                         index_scale_lower |-> 10, index_scale_upper |-> 50,
                         raLo |-> 0, raHi |-> 90, decLo |-> 0, decHi |-> 40,
                         tagalong |-> {"mag"}]
      [] name = "A2" -> [ok |-> TRUE, indexid |-> 1, healpix |-> 0, hpnside |-> 1,
                         index_scale_lower |-> 10, index_scale_upper |-> 50,
                         raLo |-> 0, raHi |-> 90, decLo |-> 0, decHi |-> 40,
                         tagalong |-> {"mag"}]
      [] name = "A3" -> [ok |-> TRUE, indexid |-> 1, healpix |-> 0, hpnside |-> 2,
                         index_scale_lower |-> 10, index_scale_upper |-> 50,
                         raLo |-> 0, raHi |-> 45, decLo |-> 0, decHi |-> 40,
                         tagalong |-> {"mag"}]
      [] name = "B"  -> [ok |-> TRUE, indexid |-> 2, healpix |-> 4, hpnside |-> 1,
                         index_scale_lower |-> 100, index_scale_upper |-> 400,
                         raLo |-> 180, raHi |-> 270, decLo |-> 0, decHi |-> 40,
                         tagalong |-> {}]
      [] OTHER       -> [ok |-> FALSE, indexid |-> 0, healpix |-> 0, hpnside |-> 0,
                         index_scale_lower |-> 0, index_scale_upper |-> 0,
                         raLo |-> 0, raHi |-> 0, decLo |-> 0, decHi |-> 0,
                         tagalong |-> {}]

IndexFileNames == {"A", "A2", "A3", "B", "X"}

\* _loadIndexMeta: the metadata-only index, or NULL when the load fails.
_loadIndexMeta(filename) ==
    IF IndexFile(filename).ok THEN <<[indexname |-> filename, loaded |-> FALSE]>> ELSE NULL

\* A duplicate test that compares the index id alone
IsDuplicate_IdOnly(meta, other) ==
    IndexFile(meta.indexname).indexid = IndexFile(other.indexname).indexid

\* The duplicate test of the constructor: the three values that identify an index.
IsDuplicate(meta, other) ==
    /\ IndexFile(meta.indexname).indexid = IndexFile(other.indexname).indexid
    /\ IndexFile(meta.indexname).healpix = IndexFile(other.indexname).healpix
    /\ IndexFile(meta.indexname).hpnside = IndexFile(other.indexname).hpnside

\* A loop over the configured files that gives up at the first file whose
\* metadata does not load
RECURSIVE LoadIndexFiles_StopsAtFailure(_, _, _, _)
LoadIndexFiles_StopsAtFailure(files, i, list, warned) ==
    IF i > Len(files) THEN [list |-> list, warned |-> warned]
    ELSE LET meta == _loadIndexMeta(files[i]) IN
         IF meta = NULL
         THEN [list |-> list, warned |-> warned]
         ELSE IF \E j \in 1..Len(list) : IsDuplicate(meta[1], list[j])
              THEN LoadIndexFiles_StopsAtFailure(files, i + 1, list, warned \o <<files[i]>>)
              ELSE LoadIndexFiles_StopsAtFailure(files, i + 1, list \o meta, warned)

\* The constructor's loop over the configured files, from file i on:
\* list is _indexList so far, warned the files reported as duplicates.
RECURSIVE LoadIndexFiles(_, _, _, _)
LoadIndexFiles(indexArray, i, list, warned) ==
    IF i > Len(indexArray) THEN [list |-> list, warned |-> warned]
    ELSE LET meta == _loadIndexMeta(indexArray[i]) IN
         IF meta = NULL
         THEN LoadIndexFiles(indexArray, i + 1, list, warned)
         ELSE IF \E j \in 1..Len(list) : IsDuplicate(meta[1], list[j])
              THEN LoadIndexFiles(indexArray, i + 1, list, warned \o <<indexArray[i]>>)
              ELSE LoadIndexFiles(indexArray, i + 1, list \o meta, warned)

\* index_reload: load the star data of an index if it is not loaded yet.
index_reload(index) == [index EXCEPT !.loaded = TRUE]

\* index_overlaps_scale_range(index, quadlo, quadhi), quad sizes in arcsec
index_overlaps_scale_range(index, qlo, qhi) ==
    ~ ( FxLt(Fx(IndexFile(index.indexname).index_scale_upper), qlo)
        \/ FxLt(qhi, Fx(IndexFile(index.indexname).index_scale_lower)) )

\* Distance in degrees from (ra, dec) to the footprint of the index's
\* healpix; right ascension is an angle, so ra and ra + 360 are one place.
Gap(v, lo, hi) == IF v < lo THEN lo - v ELSE IF v > hi THEN v - hi ELSE 0
Max2(a, b) == IF a >= b THEN a ELSE b
Min2(a, b) == IF a <= b THEN a ELSE b
RaGap(ra, lo, hi) ==
    LET r == ra % 360 IN
    Min2(Gap(r, lo, hi), Min2(Gap(r + 360, lo, hi), Gap(r - 360, lo, hi)))
healpix_distance_to_radec(index, ra, dec) ==
    LET f == IndexFile(index.indexname) IN
    Max2(RaGap(ra, f.raLo, f.raHi), Gap(dec, f.decLo, f.decHi))

\* index_is_within_range(index, ra, dec, radius), the radius given in arcsec
\* here (the code passes arcsec2deg of it): 3600 arcsec to the degree.
index_is_within_range(index, ra, dec, radiusArcsec) ==
    \/ IndexFile(index.indexname).healpix = -1
    \/ FxLe(Fx(3600 * healpix_distance_to_radec(index, ra, dec)), radiusArcsec)

(***************************************************************************)
(* The astrometry.net solver object (solver_t) as the class uses it        *)
(***************************************************************************)
\* NO_POSITION_SET, the default ra and dec of _callSolver and
\* _addSuitableIndicesToSolver (declared in the class header).
NO_POSITION_SET == -360

\* solver_new(): a zeroed solver with an empty index list
solver_new ==
    [ fieldxy |-> NULL,                 \* the field handed to the solver
      funits_lower |-> Fx(0),           \* image scale bounds, arcsec per pixel
      funits_upper |-> Fx(0),
      parity |-> 0,
      logratio_record_threshold |-> 0,
      field_minx |-> 0, field_maxx |-> 0, field_miny |-> 0, field_maxy |-> 0,
      field_diag |-> 0,
      use_radec |-> FALSE, ra |-> 0, dec |-> 0, radiusArcsec |-> Fx(0),
      indexes |-> <<>>,                 \* the indices solver_add_index appended
      best_match_solves |-> FALSE,
      best_match |-> NULL ]

solver_field_width(s) == s.field_maxx - s.field_minx
solver_field_height(s) == s.field_maxy - s.field_miny

\* field_diag = hypot(width, height)
set_diag(s) ==
    [s EXCEPT !.field_diag = ISqrt(solver_field_width(s) * solver_field_width(s)
                                   + solver_field_height(s) * solver_field_height(s))]

\* solver_set_field_bounds(solver, xlo, xhi, ylo, yhi)
solver_set_field_bounds(s, xlo, xhi, ylo, yhi) ==
    set_diag([s EXCEPT !.field_minx = xlo, !.field_maxx = xhi,
                       !.field_miny = ylo, !.field_maxy = yhi])

\* solver_set_parity: 0 on success, -1 for a value that is no parity
IsParity(parity) == parity \in {NORMAL_PARITY, FLIPPED_PARITY, UNKNOWN_PARITY}

\* setMinimumImageScale / setMaximumImageScale / setMatchThreshold
setMinimumImageScaleOf(s, scale) == [s EXCEPT !.funits_lower = scale]
setMaximumImageScaleOf(s, scale) == [s EXCEPT !.funits_upper = scale]
setMatchThresholdOf(s, threshold) == [s EXCEPT !.logratio_record_threshold = threshold]

\* solver_cleanup_field: forget the best match found so far
solver_cleanup_field(s) == [s EXCEPT !.best_match_solves = FALSE, !.best_match = NULL]

\* setDefaultValues(), applied to the solver s
setDefaultValuesOf(s) ==
    LET d0 == [s EXCEPT !.funits_lower = Fx(0), !.funits_upper = Fx(0), !.parity = 0,
                        !.logratio_record_threshold = 0, !.use_radec = FALSE,
                        !.ra = 0, !.dec = 0, !.radiusArcsec = Fx(0),
                        !.indexes = <<>>]                     \* solver_set_default_values
        d1 == setMinimumImageScaleOf(d0, DefaultMinimumImageScale)
        d2 == setMaximumImageScaleOf(d1, DefaultMaximumImageScale)
        d3 == setMatchThresholdOf(d2, LogOdds1e12)
        d4 == solver_cleanup_field(d3)
    IN [d4 EXCEPT !.parity = UNKNOWN_PARITY]

\* What an out-of-bounds read of a star list can yield: the doubles that
\* happen to lie behind the array.
Garbage == { Source(Fin(0), Fin(0), Fin(0)), Source(NaN, NaN, NaN) }

\* The values a copy of N stars can read beyond the end of full: none are
\* read when N <= starxy_n(full) (one choice, never used).
BeyondEnd(full, N) == IF N > Len(full) THEN Garbage ELSE {Source(Fin(0), Fin(0), Fin(0))}

\* starxy_subset(full, N): a new list of N stars copied from the front of
\* full; entry i > starxy_n(full) is read from beyond the end of full.
starxy_subset(full, N, g) == [i \in 1..N |-> IF i <= Len(full) THEN full[i] ELSE g]

\* The bounding box of the finite star positions of a field.
FiniteX(f) == {f[i].x.v : i \in {j \in 1..Len(f) : isfinite(f[j].x)}}
FiniteY(f) == {f[i].y.v : i \in {j \in 1..Len(f) : isfinite(f[j].y)}}
MinOf(S) == CHOOSE m \in S : \A v \in S : m <= v
MaxOf(S) == CHOOSE m \in S : \A v \in S : m >= v

\* solver_preprocess_field: derive the field bounds from the stars unless
\* bounds are set, then the diagonal.
solver_preprocess_field(s) ==
    IF (s.field_minx = s.field_maxx \/ s.field_miny = s.field_maxy)
       /\ FiniteX(s.fieldxy) # {} /\ FiniteY(s.fieldxy) # {}
    THEN solver_set_field_bounds(s, MinOf(FiniteX(s.fieldxy)), MaxOf(FiniteX(s.fieldxy)),
                                    MinOf(FiniteY(s.fieldxy)), MaxOf(FiniteY(s.fieldxy)))
    ELSE set_diag(s)

\* _solverSetField(), on a non-NULL non-empty _starxy: hand the solver the
\* N brightest stars, reset the field size and preprocess the field.
SolverSetFieldOf(s, starlist, numBright, g) ==
    LET N == IF numBright = USE_ALL_STARS_FOR_SOLUTION THEN Len(starlist) ELSE numBright
        shortlist == starxy_subset(starlist, N, g)
        s1 == [s EXCEPT !.fieldxy = shortlist]                       \* solver_set_field
        s2 == solver_set_field_bounds(s1, 0, 0, 0, 0)                \* solver_reset_field_size
    IN solver_preprocess_field(s2)

\* solver_get_quad_size_range_arcsec after solver_set_quad_size_fraction(0.1, 1.0)
QuadSizeLow(s) ==
    FxTenth(FxTimes(s.funits_lower, Min2(solver_field_width(s), solver_field_height(s))))
QuadSizeHigh(s) == FxTimes(s.funits_upper, s.field_diag)

\* 2.0 * solver_get_max_radius_arcsec(solver), in arcsec
SearchRadius(s) == FxTimes(s.funits_upper, s.field_diag)

(***************************************************************************)
(* State                                                                   *)
(***************************************************************************)
VARIABLES
    indexArray,         \* the "indexFile" entries of the policy file, in order
    indexWarnings,      \* the files the constructor reported as duplicates
    _indexList,         \* the index metadata, each entry loaded or not
    _solver,            \* the astrometry.net solver
    _starxy,            \* the stored star list, NULL when none is set
    _numBrightObjects,  \* the bright limit, USE_ALL_STARS_FOR_SOLUTION when unset
    _isSolved,          \* a match has been found
    log_level,          \* astrometry.net's verbosity, set by log_init
    out                 \* the latest call: method, argument, exception, result, engine run

vars == <<indexArray, indexWarnings, _indexList, _solver, _starxy, _numBrightObjects,
          _isSolved, log_level, out>>

\* The record of a call.  err is OK or the message of the exception thrown;
\* ret holds the value returned (empty when nothing is returned); engine
\* holds what solver_run was given when the call ran the matching engine.
Call(op, arg, err, ret, engine) ==
    [op |-> op, arg |-> arg, err |-> err, ret |-> ret, engine |-> engine]

NoReturn == <<>>
NoEngine == <<>>

\* All sequences over S of length at most n.
RECURSIVE SeqsUpTo(_, _)
SeqsUpTo(S, n) ==
    IF n = 0 THEN {<<>>}
    ELSE LET shorter == SeqsUpTo(S, n - 1) IN
         shorter \cup {Append(q, x) : q \in {r \in shorter : Len(r) = n - 1}, x \in S}

\* The policy files a session is constructed from.
SessionPolicies == { <<"A", "B">>, <<"X">> }

\* The constructor, for the policy's list of index files.
Constructed(files) ==
    LET loaded == LoadIndexFiles(files, 1, <<>>, <<>>) IN
    /\ indexArray = files
    /\ _indexList = loaded.list
    /\ indexWarnings = loaded.warned
    /\ _solver = setDefaultValuesOf(solver_new)
    /\ _starxy = NULL
    /\ _numBrightObjects = USE_ALL_STARS_FOR_SOLUTION
    /\ _isSolved = FALSE
    /\ log_level = 0
    /\ out = Call("GlobalAstrometrySolution", files, OK, NoReturn, NoEngine)

Init == \E files \in SessionPolicies : Constructed(files)

\* Every policy of at most MaxFiles index files.
InitLoad == \E files \in SeqsUpTo(IndexFileNames, MaxFiles) : Constructed(files)

(***************************************************************************)
(* Setup methods                                                           *)
(***************************************************************************)
\* loadIndices()
loadIndices ==
    /\ _indexList' = [i \in 1..Len(_indexList) |-> index_reload(_indexList[i])]
    /\ out' = Call("loadIndices", <<>>, OK, NoReturn, NoEngine)
    /\ UNCHANGED <<indexArray, indexWarnings, _solver, _starxy, _numBrightObjects,
                   _isSolved, log_level>>

\* setImageSize(W, H)
setImageSize(W, H) ==
    /\ _solver' = solver_set_field_bounds(_solver, 0, W, 0, H)
    /\ out' = Call("setImageSize", <<W, H>>, OK, NoReturn, NoEngine)
    /\ UNCHANGED <<indexArray, indexWarnings, _indexList, _starxy, _numBrightObjects,
                   _isSolved, log_level>>

\* What a setStarlist call did with star lists: how many it allocated with
\* starxy_new (tmpStarxy, and the list of the right size), how many of
\* these it released with starxy_free, how many it stored in _starxy, and
\* how often it released the list _starxy held before.  Recorded as the
\* result of the call, which returns no value of its own.
StarxyUse(allocated, released, installed, oldReleased) ==
    <<[allocated |-> allocated, released |-> released, installed |-> installed,
       oldReleased |-> oldReleased]>>

\* setStarlist that releases the old star list before it validates the new one
setStarlist_FreesFirst(id) ==
    LET vec == SourceLists[id]
        i == Len(ValidSources(vec))
    IN
    /\ IF vec = <<>> \/ Len(vec) < MinObjects \/ i < MinObjects
       THEN /\ out' = Call("setStarlist", id, ErrTooFewValid, StarxyUse(1, 0, 0, 1), NoEngine)
            /\ _starxy' = NULL
            /\ UNCHANGED _solver
       ELSE \E g \in BeyondEnd(StoredField[id], _numBrightObjects) :
              /\ _starxy' = StoredField[id]
              /\ _solver' = SolverSetFieldOf(_solver, _starxy', _numBrightObjects, g)
              /\ out' = Call("setStarlist", id, OK, StarxyUse(1, 0, 1, 1), NoEngine)
    /\ UNCHANGED <<indexArray, indexWarnings, _indexList, _numBrightObjects,
                   _isSolved, log_level>>

\* setStarlist(vec), vec the source list SourceLists[id]
setStarlist(id) ==
    LET vec == SourceLists[id]
        tmpStarxy == ValidSources(vec)
        i == Len(tmpStarxy)
        size == Len(vec)
        oldFreed == IF _starxy # NULL THEN 1 ELSE 0
        fail(msg, use) ==
            /\ out' = Call("setStarlist", id, msg, use, NoEngine)
            /\ UNCHANGED <<_starxy, _solver>>
    IN
    /\ IF vec = <<>> THEN fail(ErrNoObjects, StarxyUse(0, 0, 0, 0))
       ELSE IF Len(vec) < MinObjects THEN fail(ErrTooFewObjects, StarxyUse(0, 0, 0, 0))
       ELSE IF i < MinObjects THEN fail(ErrTooFewValid, StarxyUse(1, 0, 0, 0))
       ELSE \E g \in BeyondEnd(StoredField[id], _numBrightObjects) :
              /\ _starxy' = StoredField[id]
              /\ _solver' = SolverSetFieldOf(_solver, _starxy', _numBrightObjects, g)
              /\ out' = Call("setStarlist", id, OK,
                             IF i = size THEN StarxyUse(1, 0, 1, oldFreed)
                                         ELSE StarxyUse(2, 1, 1, oldFreed),
                             NoEngine)
    /\ UNCHANGED <<indexArray, indexWarnings, _indexList, _numBrightObjects,
                   _isSolved, log_level>>

\* setNumBrightObjects(N)
setNumBrightObjects(N) ==
    /\ IF N <= 0
       THEN /\ out' = Call("setNumBrightObjects", N, ErrIllegalN, NoReturn, NoEngine)
            /\ UNCHANGED <<_numBrightObjects, _solver>>
       ELSE /\ _numBrightObjects' = N
            /\ out' = Call("setNumBrightObjects", N, OK, NoReturn, NoEngine)
            /\ IF _starxy # NULL
               THEN \E g \in BeyondEnd(_starxy, N) :
                        _solver' = SolverSetFieldOf(_solver, _starxy, N, g)
               ELSE UNCHANGED _solver
    /\ UNCHANGED <<indexArray, indexWarnings, _indexList, _starxy, _isSolved, log_level>>

\* setMinimumImageScale(scale)
setMinimumImageScale(scale) ==
    /\ _solver' = setMinimumImageScaleOf(_solver, scale)
    /\ out' = Call("setMinimumImageScale", scale, OK, NoReturn, NoEngine)
    /\ UNCHANGED <<indexArray, indexWarnings, _indexList, _starxy, _numBrightObjects,
                   _isSolved, log_level>>

\* setMaximumImageScale(scale)
setMaximumImageScale(scale) ==
    /\ _solver' = setMaximumImageScaleOf(_solver, scale)
    /\ out' = Call("setMaximumImageScale", scale, OK, NoReturn, NoEngine)
    /\ UNCHANGED <<indexArray, indexWarnings, _indexList, _starxy, _numBrightObjects,
                   _isSolved, log_level>>

\* setLogLevel(level)
setLogLevel(level) ==
    /\ IF level < 0 \/ level > 4
       THEN /\ out' = Call("setLogLevel", level, ErrLogLevel, NoReturn, NoEngine)
            /\ UNCHANGED log_level
       ELSE /\ log_level' = level
            /\ out' = Call("setLogLevel", level, OK, NoReturn, NoEngine)
    /\ UNCHANGED <<indexArray, indexWarnings, _indexList, _solver, _starxy,
                   _numBrightObjects, _isSolved>>

\* setParity that stores the value before it is checked
setParity_StoresFirst(parity) ==
    /\ _solver' = [_solver EXCEPT !.parity = parity]
    /\ out' = Call("setParity", parity, IF IsParity(parity) THEN OK ELSE ErrParity,
                   NoReturn, NoEngine)
    /\ UNCHANGED <<indexArray, indexWarnings, _indexList, _starxy, _numBrightObjects,
                   _isSolved, log_level>>

\* setParity(parity)
setParity(parity) ==
    /\ IF ~IsParity(parity)
       THEN /\ out' = Call("setParity", parity, ErrParity, NoReturn, NoEngine)
            /\ UNCHANGED _solver
       ELSE /\ _solver' = [_solver EXCEPT !.parity = parity]
            /\ out' = Call("setParity", parity, OK, NoReturn, NoEngine)
    /\ UNCHANGED <<indexArray, indexWarnings, _indexList, _starxy, _numBrightObjects,
                   _isSolved, log_level>>

\* setImageScaleArcsecPerPixel(imgScale): 0.99 and 1.01 times the scale
FxPercent(a, pct) == FxTenth(FxTenth(FxTimes(a, pct)))
setImageScaleArcsecPerPixel(imgScale) ==
    /\ _solver' = setMaximumImageScaleOf(setMinimumImageScaleOf(_solver, FxPercent(imgScale, 99)),
                                         FxPercent(imgScale, 101))
    /\ out' = Call("setImageScaleArcsecPerPixel", imgScale, OK, NoReturn, NoEngine)
    /\ UNCHANGED <<indexArray, indexWarnings, _indexList, _starxy, _numBrightObjects,
                   _isSolved, log_level>>

\* reset() if it kept the scale bounds, the parity and the position
\* restriction the solver had
reset_KeepsSettings ==
    /\ _solver' = [setDefaultValuesOf(solver_new) EXCEPT
                      !.funits_lower = _solver.funits_lower,
                      !.funits_upper = _solver.funits_upper,
                      !.parity = _solver.parity,
                      !.use_radec = _solver.use_radec,
                      !.ra = _solver.ra, !.dec = _solver.dec,
                      !.radiusArcsec = _solver.radiusArcsec]
    /\ _starxy' = NULL
    /\ _numBrightObjects' = USE_ALL_STARS_FOR_SOLUTION
    /\ _isSolved' = FALSE
    /\ out' = Call("reset", <<>>, OK, NoReturn, NoEngine)
    /\ UNCHANGED <<indexArray, indexWarnings, _indexList, log_level>>

\* reset() if it released the star list and left the solution in place
reset_KeepsSolution ==
    /\ _starxy' = NULL
    /\ _numBrightObjects' = USE_ALL_STARS_FOR_SOLUTION
    /\ out' = Call("reset", <<>>, OK, NoReturn, NoEngine)
    /\ UNCHANGED <<indexArray, indexWarnings, _indexList, log_level, _solver, _isSolved>>

\* reset() that leaves the bright limit as it is
reset_KeepsBrightLimit ==
    /\ _solver' = setDefaultValuesOf(solver_new)
    /\ _starxy' = NULL
    /\ _isSolved' = FALSE
    /\ out' = Call("reset", <<>>, OK, NoReturn, NoEngine)
    /\ UNCHANGED <<indexArray, indexWarnings, _indexList, log_level, _numBrightObjects>>

\* reset()
reset ==
    /\ _solver' = setDefaultValuesOf(solver_new)
    /\ _starxy' = NULL
    /\ _numBrightObjects' = USE_ALL_STARS_FOR_SOLUTION
    /\ _isSolved' = FALSE
    /\ out' = Call("reset", <<>>, OK, NoReturn, NoEngine)
    /\ UNCHANGED <<indexArray, indexWarnings, _indexList, log_level>>

(***************************************************************************)
(* Solve methods                                                           *)
(***************************************************************************)
\* The loop of _addSuitableIndicesToSolver from entry i on.  list is
\* _indexList with the indices reloaded so far, added the indices handed to
\* solver_add_index so far, hasScale is hasAtLeastOneIndexOfSuitableScale.
RECURSIVE AddSuitableFrom(_, _, _, _, _, _, _, _)
AddSuitableFrom(list, i, qlo, qhi, ra, dec, added, hasScale) ==
    IF i > Len(list) THEN [list |-> list, added |-> added, hasScale |-> hasScale]
    ELSE LET index == list[i]
             blind == (ra = NO_POSITION_SET) \/ (dec = NO_POSITION_SET)
         IN
         IF ~index_overlaps_scale_range(index, qlo, qhi)
         THEN AddSuitableFrom(list, i + 1, qlo, qhi, ra, dec, added, hasScale)
         ELSE IF ~(blind \/ index_is_within_range(index, ra, dec, qhi))
              THEN AddSuitableFrom(list, i + 1, qlo, qhi, ra, dec, added, TRUE)
              ELSE AddSuitableFrom([list EXCEPT ![i] = index_reload(index)], i + 1,
                                   qlo, qhi, ra, dec, Append(added, index.indexname), TRUE)

\* _addSuitableIndicesToSolver(quadSizeArcsecLwr, quadSizeArcsecUpr, ra, dec)
_addSuitableIndicesToSolver(qlo, qhi, ra, dec) ==
    AddSuitableFrom(_indexList, 1, qlo, qhi, ra, dec, <<>>, FALSE)

\* The correspondence arrays the engine can report for a field of nfield
\* stars: theta[i] is the reference star matched to field star i, negative
\* when the field star has no match.
ThetaPatterns == {1, 2}
Theta(p, nfield) == [i \in 1..nfield |-> IF (i + p) % 3 = 0 THEN -1 ELSE 2 * i + p]

\* The match solver_run leaves in a solver with the field fieldxy: found in
\* the index indexname, with the correspondence array theta, computed for an
\* image of imagew x imageh pixels; not yet refined.
MatchObj(indexname, fieldxy, theta, imagew, imageh) ==
    [index |-> indexname, nfield |-> Len(fieldxy), theta |-> theta,
     imagew |-> imagew, imageh |-> imageh,
     tweaked |-> FALSE, tweak_order |-> 0, tweak_field |-> NULL]

\* What solver_run was given.
EngineRun(s) ==
    <<[indexes |-> s.indexes, nfield |-> Len(s.fieldxy), use_radec |-> s.use_radec,
       ra |-> s.ra, dec |-> s.dec]>>

\* solver_run(solver): the solver afterwards, holding a match in one of its
\* indices or none.
solver_run(s) ==
    { [s EXCEPT !.best_match_solves = TRUE,
                !.best_match = <<MatchObj(s.indexes[k], s.fieldxy, Theta(p, Len(s.fieldxy)),
                                          solver_field_width(s), solver_field_height(s))>>]
        : k \in 1..Len(s.indexes), p \in ThetaPatterns }
    \cup { [s EXCEPT !.best_match_solves = FALSE, !.best_match = NULL] }

\* solver_tweak2(solver, match, order): refine the solver's best match
\* against the field the solver holds.
solver_tweak2(s, order) ==
    IF s.best_match = NULL THEN s
    ELSE [s EXCEPT !.best_match = <<[@[1] EXCEPT !.tweaked = TRUE, !.tweak_order = order,
                                                !.tweak_field = s.fieldxy]>>]

\* A solver_did_solve that reports a match after every run
solver_did_solve_Always(s) == TRUE

\* solver_did_solve(solver)
solver_did_solve(s) == s.best_match_solves

\* The setup checks with the scale test ahead of the others
CallSolverPrecondition_ScaleFirst(s) ==
    IF ~FxLt(s.funits_lower, s.funits_upper) THEN ErrScaleOrder
    ELSE IF _starxy = NULL THEN ErrNoStarlist
    ELSE IF Len(_indexList) = 0 THEN ErrNoIndex
    ELSE IF _isSolved THEN ErrAlreadySolved
    ELSE OK

\* The setup checks without the check of _isSolved
CallSolverPrecondition_NoSolvedCheck(s) ==
    IF _starxy = NULL THEN ErrNoStarlist
    ELSE IF Len(_indexList) = 0 THEN ErrNoIndex
    ELSE IF ~FxLt(s.funits_lower, s.funits_upper) THEN ErrScaleOrder
    ELSE OK

\* The setup checks with a scale test that lets equal bounds through
CallSolverPrecondition_EqualPasses(s) ==
    IF _starxy = NULL THEN ErrNoStarlist
    ELSE IF Len(_indexList) = 0 THEN ErrNoIndex
    ELSE IF _isSolved THEN ErrAlreadySolved
    ELSE IF FxLt(s.funits_upper, s.funits_lower) THEN ErrScaleOrder
    ELSE OK

\* The setup checks at the head of _callSolver, on the solver s: the message
\* of the exception thrown, or OK.
CallSolverPrecondition(s) ==
    IF _starxy = NULL THEN ErrNoStarlist
    ELSE IF Len(_indexList) = 0 THEN ErrNoIndex
    ELSE IF _isSolved THEN ErrAlreadySolved
    ELSE IF ~FxLt(s.funits_lower, s.funits_upper) THEN ErrScaleOrder
    ELSE OK

\* _callSolver(ra, dec), called by the method op with argument arg after it
\* has changed the solver to s.
_callSolver(s, ra, dec, op, arg) ==
    LET throw(msg) ==
            /\ out' = Call(op, arg, msg, NoReturn, NoEngine)
            /\ _solver' = s
            /\ UNCHANGED <<_indexList, _isSolved>>
        minSizePixels == Min2(solver_field_width(s), solver_field_height(s))
        sel == _addSuitableIndicesToSolver(QuadSizeLow(s), QuadSizeHigh(s), ra, dec)
        s1 == [s EXCEPT !.indexes = @ \o sel.added]
    IN
    IF CallSolverPrecondition(s) # OK THEN throw(CallSolverPrecondition(s))
    ELSE IF ~(minSizePixels > 0) THEN throw(ErrAssert)
    ELSE IF Len(sel.added) = 0
         THEN throw(IF sel.hasScale THEN ErrNoSky ELSE ErrNoScale)
         ELSE /\ Len(s1.indexes) <= MaxSolverIndexes
              /\ _indexList' = sel.list
              /\ \E s2 \in solver_run(s1) :
                    /\ _solver' = IF solver_did_solve(s2) THEN solver_tweak2(s2, 1) ELSE s2
                    /\ _isSolved' = solver_did_solve(s2)
                    /\ out' = Call(op, arg, OK, <<_isSolved'>>, EngineRun(s1))

\* A blind solve that leaves the solver's position restriction in place
solve_KeepsHint ==
    /\ _callSolver(_solver, NO_POSITION_SET, NO_POSITION_SET, "solve", <<>>)
    /\ UNCHANGED <<indexArray, indexWarnings, _starxy, _numBrightObjects, log_level>>

\* solve(): the blind solve
solve ==
    /\ _callSolver([_solver EXCEPT !.use_radec = FALSE],          \* solver_clear_radec
                   NO_POSITION_SET, NO_POSITION_SET, "solve", <<>>)
    /\ UNCHANGED <<indexArray, indexWarnings, _starxy, _numBrightObjects, log_level>>

\* solver_set_radec(solver, ra, dec, radius)
solver_set_radec(s, ra, dec, radius) ==
    [s EXCEPT !.use_radec = TRUE, !.ra = ra, !.dec = dec, !.radiusArcsec = radius]

\* solve(ra, dec), called as op with argument arg on the solver s
SolveNear(s, ra, dec, op, arg) ==
    _callSolver(solver_set_radec(s, ra, dec, SearchRadius(s)), ra, dec, op, arg)

\* solve(ra, dec): the solve with an initial guess at the position
solveRaDec(ra, dec) ==
    /\ SolveNear(_solver, ra, dec, "solveRaDec", <<ra, dec>>)
    /\ UNCHANGED <<indexArray, indexWarnings, _starxy, _numBrightObjects, log_level>>

\* solve(wcsPtr, ..) if it left the scale bounds as they are
solveWcs_KeepsScales(wcs, unc) ==
    /\ IF _starxy = NULL
       THEN /\ out' = Call("solveWcs", <<wcs, unc>>, ErrNoStarlist, NoReturn, NoEngine)
            /\ UNCHANGED <<_solver, _indexList, _isSolved>>
       ELSE LET s3 == [_solver EXCEPT !.parity = IF wcs.isFlipped THEN FLIPPED_PARITY
                                                                  ELSE NORMAL_PARITY]
            IN SolveNear(s3, wcs.ra, wcs.dec, "solveWcs", <<wcs, unc>>)
    /\ UNCHANGED <<indexArray, indexWarnings, _starxy, _numBrightObjects, log_level>>

\* solve(wcsPtr, imageScaleUncertaintyPercent); wcs gives the guess's sky
\* position and plate scale at the field centre and whether it is flipped.
solveWcs(wcs, unc) ==
    /\ IF _starxy = NULL
       THEN /\ out' = Call("solveWcs", <<wcs, unc>>, ErrNoStarlist, NoReturn, NoEngine)
            /\ UNCHANGED <<_solver, _indexList, _isSolved>>
       ELSE LET s1 == setMinimumImageScaleOf(_solver, FxPercent(wcs.plateScale, 100 - unc))
                s2 == setMaximumImageScaleOf(s1, FxPercent(wcs.plateScale, 100 + unc))
                s3 == [s2 EXCEPT !.parity = IF wcs.isFlipped THEN FLIPPED_PARITY
                                                             ELSE NORMAL_PARITY]
            IN SolveNear(s3, wcs.ra, wcs.dec, "solveWcs", <<wcs, unc>>)
    /\ UNCHANGED <<indexArray, indexWarnings, _starxy, _numBrightObjects, log_level>>

(***************************************************************************)
(* Result and catalogue queries                                            *)
(***************************************************************************)
\* A query that changes nothing but the record of the call.
Answer(op, arg, err, ret) ==
    /\ out' = Call(op, arg, err, ret, NoEngine)
    /\ UNCHANGED <<indexArray, indexWarnings, _indexList, _solver, _starxy,
                   _numBrightObjects, _isSolved, log_level>>

\* solver_get_best_match(_solver)
solver_get_best_match == _solver.best_match[1]

\* getTagAlongFromIndex(index, fieldName, ids, numIds): the exception it
\* throws, or OK
TagAlongError(indexname, fieldName) ==
    IF fieldName = "" THEN OK
    ELSE IF IndexFile(indexname).tagalong = {} THEN ErrNoMetadata
    ELSE IF fieldName \notin IndexFile(indexname).tagalong THEN ErrNoColumn
    ELSE OK

\* getWcs() without its check of _isSolved
getWcs_Unchecked ==
    Answer("getWcs", <<>>, OK,
           <<[wcs |-> "TAN",
              index |-> IF _solver.best_match = NULL THEN "" ELSE _solver.best_match[1].index]>>)

\* getWcs()
getWcs ==
    IF ~_isSolved
    THEN Answer("getWcs", <<>>, ErrNotSolved, NoReturn)
    ELSE Answer("getWcs", <<>>, OK, <<[wcs |-> "TAN", index |-> solver_get_best_match.index]>>)

\* tweak_just_do_it(&mo->wcstan, _starxy, mo->refxyz, .., order, ..): NULL,
\* or the SIP solution of that order fitted to the star list starxy.
tweak_just_do_it(match, starxy, order) ==
    { NULL,
      <<[wcs |-> "TAN-SIP", index |-> match.index, a_order |-> order, tweak_field |-> starxy]>> }

\* getDistortedWcs(order) if a failed refinement dropped the solution
getDistortedWcs_FailureUnsolves(order) ==
    IF ~_isSolved
    THEN Answer("getDistortedWcs", order, ErrNotSolved, NoReturn)
    ELSE IF _starxy = NULL
    THEN Answer("getDistortedWcs", order, ErrStarlistUnset, NoReturn)
    ELSE \E sip \in tweak_just_do_it(solver_get_best_match, _starxy, order) :
            IF sip = NULL
            THEN /\ out' = Call("getDistortedWcs", order, ErrTweak, NoReturn, NoEngine)
                 /\ _isSolved' = FALSE
                 /\ _solver' = solver_cleanup_field(_solver)
                 /\ UNCHANGED <<indexArray, indexWarnings, _indexList, _starxy,
                                _numBrightObjects, log_level>>
            ELSE Answer("getDistortedWcs", order, OK, sip)

\* getDistortedWcs(order)
getDistortedWcs(order) ==
    IF ~_isSolved
    THEN Answer("getDistortedWcs", order, ErrNotSolved, NoReturn)
    ELSE IF _starxy = NULL
    THEN Answer("getDistortedWcs", order, ErrStarlistUnset, NoReturn)
    ELSE \E sip \in tweak_just_do_it(solver_get_best_match, _starxy, order) :
            IF sip = NULL
            THEN Answer("getDistortedWcs", order, ErrTweak, NoReturn)
            ELSE Answer("getDistortedWcs", order, OK, sip)

\* The value of the tag-along column fieldName for the reference star star
\* of an index (a magnitude), and the flux pow(10.0, -mag/2.5) made from it.
AuxValue(indexname, fieldName, star) == 100 + star
FluxOfMag(mag) == [base |-> 10, exp_num |-> -(10 * mag), exp_den |-> 25]

\* getTagAlongFromIndex(index, fieldName, ids, numIds) when it does not
\* throw: entry i is the column's value for the reference star ids[i] (for a
\* negative id, whatever the column read yields); empty for no field name.
getTagAlongFromIndex(indexname, fieldName, ids) ==
    IF fieldName = "" THEN <<>>
    ELSE [i \in 1..Len(ids) |-> IF ids[i] >= 0 THEN AuxValue(indexname, fieldName, ids[i]) ELSE 0]

\* The pair getMatchedSources builds for field star i: the star read from
\* the solver's field (g when the field has no entry i), the reference star
\* theta[i] and, with a field name, its flux from tagAlong[i].
MatchedPair(match, fieldxy, tagAlong, filterName, i, g) ==
    [fieldstar |-> i,
     source |-> IF i <= Len(fieldxy) THEN fieldxy[i] ELSE g,
     ref |-> match.theta[i],
     flux |-> IF filterName # "" THEN <<FluxOfMag(tagAlong[i])>> ELSE <<>>]

\* The loop of getMatchedSources over field stars i..nfield.
RECURSIVE MatchedPairsFrom(_, _, _, _, _, _)
MatchedPairsFrom(match, fieldxy, tagAlong, filterName, i, g) ==
    IF i > match.nfield THEN <<>>
    ELSE IF match.theta[i] < 0
         THEN MatchedPairsFrom(match, fieldxy, tagAlong, filterName, i + 1, g)
         ELSE <<MatchedPair(match, fieldxy, tagAlong, filterName, i, g)>>
              \o MatchedPairsFrom(match, fieldxy, tagAlong, filterName, i + 1, g)

\* getMatchedSources(filterName); starxy_getx and its like, asked for an
\* entry the solver's field does not have, abort or read beyond the field.
getMatchedSources(filterName) ==
    IF ~_isSolved
    THEN Answer("getMatchedSources", filterName, ErrNotSolved, NoReturn)
    ELSE LET match == solver_get_best_match
             err == TagAlongError(match.index, filterName)
             tagAlong == getTagAlongFromIndex(match.index, filterName, match.theta)
             fieldxy == _solver.fieldxy
         IN IF err # OK
            THEN Answer("getMatchedSources", filterName, err, NoReturn)
            ELSE \/ \E g \in BeyondEnd(fieldxy, match.nfield) :
                      Answer("getMatchedSources", filterName, OK,
                             <<MatchedPairsFrom(match, fieldxy, tagAlong, filterName, 1, g)>>)
                 \/ /\ \E i \in 1..match.nfield : match.theta[i] >= 0 /\ i > Len(fieldxy)
                    /\ Answer("getMatchedSources", filterName, ErrCrash, NoReturn)

\* getSolvedImageScale()
getSolvedImageScale ==
    IF ~_isSolved
    THEN Answer("getSolvedImageScale", <<>>, ErrNotSolved, NoReturn)
    ELSE Answer("getSolvedImageScale", <<>>, OK, <<[index |-> solver_get_best_match.index]>>)

\* A reference star found by a range query of an index's star tree, with
\* the pixel position tan_radec2pixelxy gives it in the solved WCS
\* (projects = FALSE when the projection fails).
Candidate(star, projects, px, py) == [star |-> star, projects |-> projects, px |-> px, py |-> py]

\* startree_search_for(match->index->starkd, match->center, r2, ...): the
\* stars found around the centre of a match in the index indexname.
SearchForSolvedField(indexname) ==
    IF IndexFile(indexname).indexid = 1
    THEN << Candidate(1, TRUE, -6, 10),  Candidate(2, TRUE, -5, 10),
            Candidate(3, FALSE, 10, 10), Candidate(4, TRUE, 45, 35),
            Candidate(5, TRUE, 46, 10),  Candidate(6, TRUE, 20, -6),
            Candidate(7, TRUE, 20, 36),  Candidate(8, TRUE, 0, 0) >>
    ELSE IF IndexFile(indexname).indexid = 2
    THEN << Candidate(21, TRUE, 3, 3), Candidate(22, TRUE, -9, 3) >>
    ELSE <<>>

\* An in-bounds test that leaves out the edge of the rectangle
InBounds_WithoutEdge(px, py, W, H, margin) ==
    ~(px <= -margin \/ px >= W + margin \/ py <= -margin \/ py >= H + margin)

\* The in-bounds (+ margin) test of getCatalogueForSolvedField
InBounds(px, py, W, H, margin) ==
    ~(px < -margin \/ px > W + margin \/ py < -margin \/ py > H + margin)

\* The loop of getCatalogueForSolvedField from candidate i on: the star
\* indices kept (starinds[0..outi-1]).
RECURSIVE KeptFrom(_, _, _, _)
KeptFrom(cands, i, match, margin) ==
    IF i > Len(cands) THEN <<>>
    ELSE IF ~cands[i].projects
            \/ ~InBounds(cands[i].px, cands[i].py, match.imagew, match.imageh, margin)
         THEN KeptFrom(cands, i + 1, match, margin)
         ELSE <<cands[i].star>> \o KeptFrom(cands, i + 1, match, margin)

\* A catalogue source: the reference star and, if set, its flux.
CatalogueSource(star, mag, i) ==
    [star |-> star, flux |-> IF Len(mag) > 0 THEN <<FluxOfMag(mag[i])>> ELSE <<>>]

\* getCatalogueForSolvedField if it read the tag-along column for the
\* first stars found instead of the stars kept
getCatalogueForSolvedField_FirstFound(filterName, margin) ==
    IF ~_isSolved
    THEN Answer("getCatalogueForSolvedField", <<filterName, margin>>, ErrNotSolved, NoReturn)
    ELSE LET match == solver_get_best_match
             cands == SearchForSolvedField(match.index)
             starinds == KeptFrom(cands, 1, match, margin)
             err == TagAlongError(match.index, filterName)
             mag == getTagAlongFromIndex(match.index, filterName,
                                         [i \in 1..Len(starinds) |-> cands[i].star])
         IN IF Len(cands) = 0
            THEN Answer("getCatalogueForSolvedField", <<filterName, margin>>, OK, <<<<>>>>)
            ELSE IF err # OK
            THEN Answer("getCatalogueForSolvedField", <<filterName, margin>>, err, NoReturn)
            ELSE Answer("getCatalogueForSolvedField", <<filterName, margin>>, OK,
                        <<[i \in 1..Len(starinds) |-> CatalogueSource(starinds[i], mag, i)]>>)

\* getCatalogueForSolvedField(filterName, margin)
getCatalogueForSolvedField(filterName, margin) ==
    IF ~_isSolved
    THEN Answer("getCatalogueForSolvedField", <<filterName, margin>>, ErrNotSolved, NoReturn)
    ELSE LET match == solver_get_best_match
             cands == SearchForSolvedField(match.index)
             starinds == KeptFrom(cands, 1, match, margin)
             err == TagAlongError(match.index, filterName)
             mag == getTagAlongFromIndex(match.index, filterName, starinds)
         IN IF Len(cands) = 0
            THEN Answer("getCatalogueForSolvedField", <<filterName, margin>>, OK, <<<<>>>>)
            ELSE IF err # OK
            THEN Answer("getCatalogueForSolvedField", <<filterName, margin>>, err, NoReturn)
            ELSE Answer("getCatalogueForSolvedField", <<filterName, margin>>, OK,
                        <<[i \in 1..Len(starinds) |-> CatalogueSource(starinds[i], mag, i)]>>)

\* The stars of an index's star tree: the number of each in the tree and
\* its position in degrees.
IndexStars(indexname) ==
    CASE indexname \in {"A", "A2"} -> << [id |-> 4, ra |-> 10, dec |-> 20],
                                         [id |-> 7, ra |-> 50, dec |-> 30],
                                         [id |-> 9, ra |-> 10, dec |-> 21] >>
      [] indexname = "A3"          -> << [id |-> 2, ra |-> 10, dec |-> 21],
                                         [id |-> 3, ra |-> 10, dec |-> 20] >>
      [] indexname = "B"           -> << [id |-> 0, ra |-> 200, dec |-> 20] >>
      [] OTHER                     -> << >>

\* startree_search_for(index->starkd, center, radius2, ..): the stars of the
\* tree within the radius (arcsec) of (ra, dec), in the order of the tree.
RECURSIVE SearchFrom(_, _, _, _, _)
SearchFrom(stars, j, ra, dec, radius) ==
    IF j > Len(stars) THEN <<>>
    ELSE IF FxLe(Fx(3600 * Max2(RaGap(ra, stars[j].ra, stars[j].ra),
                                Gap(dec, stars[j].dec, stars[j].dec))), radius)
    THEN <<stars[j]>> \o SearchFrom(stars, j + 1, ra, dec, radius)
    ELSE SearchFrom(stars, j + 1, ra, dec, radius)

startree_search_for(indexname, ra, dec, radius) ==
    SearchFrom(IndexStars(indexname), 1, ra, dec, radius)

\* The source getCatalogue(ra, dec, ..) makes of the star j found: its
\* position and, if magnitudes were read, its flux.
SkySource(stars, mag, j) ==
    [ra |-> stars[j].ra, dec |-> stars[j].dec,
     flux |-> IF Len(mag) > 0 THEN <<FluxOfMag(mag[j])>> ELSE <<>>]

\* The loop of getCatalogue(ra, dec, ..) if it left out a star at a position
\* it already has a source for.
RECURSIVE CatalogueFrom_SkipsSeen(_, _, _, _, _, _, _)
CatalogueFrom_SkipsSeen(list, i, ra, dec, radius, filterName, found) ==
    IF i > Len(list) THEN [list |-> list, found |-> found, err |-> OK]
    ELSE IF ~index_is_within_range(list[i], ra, dec, radius)
    THEN CatalogueFrom_SkipsSeen(list, i + 1, ra, dec, radius, filterName, found)
    ELSE LET reloaded == [list EXCEPT ![i] = index_reload(list[i])]
             stars == startree_search_for(list[i].indexname, ra, dec, radius)
             err == TagAlongError(list[i].indexname, filterName)
             mag == getTagAlongFromIndex(list[i].indexname, filterName,
                                         [j \in 1..Len(stars) |-> stars[j].id])
             made == [j \in 1..Len(stars) |-> SkySource(stars, mag, j)]
             Unseen(src) == \A k \in 1..Len(found) :
                               found[k].ra # src.ra \/ found[k].dec # src.dec
         IN IF Len(stars) = 0
            THEN CatalogueFrom_SkipsSeen(reloaded, i + 1, ra, dec, radius, filterName, found)
            ELSE IF err # OK
            THEN [list |-> reloaded, found |-> found, err |-> err]
            ELSE CatalogueFrom_SkipsSeen(reloaded, i + 1, ra, dec, radius, filterName,
                                         found \o SelectSeq(made, Unseen))

\* The loop of getCatalogue(ra, dec, radiusInArcsec, filterName) from entry
\* i on: list is _indexList with the indices reloaded so far, found the
\* sources made so far, err the exception thrown meanwhile (OK if none).
RECURSIVE CatalogueFrom(_, _, _, _, _, _, _)
CatalogueFrom(list, i, ra, dec, radius, filterName, found) ==
    IF i > Len(list) THEN [list |-> list, found |-> found, err |-> OK]
    ELSE IF ~index_is_within_range(list[i], ra, dec, radius)
    THEN CatalogueFrom(list, i + 1, ra, dec, radius, filterName, found)
    ELSE LET reloaded == [list EXCEPT ![i] = index_reload(list[i])]
             stars == startree_search_for(list[i].indexname, ra, dec, radius)
             err == TagAlongError(list[i].indexname, filterName)
             mag == getTagAlongFromIndex(list[i].indexname, filterName,
                                         [j \in 1..Len(stars) |-> stars[j].id])
         IN IF Len(stars) = 0
            THEN CatalogueFrom(reloaded, i + 1, ra, dec, radius, filterName, found)
            ELSE IF err # OK
            THEN [list |-> reloaded, found |-> found, err |-> err]
            ELSE CatalogueFrom(reloaded, i + 1, ra, dec, radius, filterName,
                               found \o [j \in 1..Len(stars) |-> SkySource(stars, mag, j)])

\* getCatalogue(ra, dec, radiusInArcsec, filterName), called as op with arg
CatalogueAt(ra, dec, radius, filterName, op, arg) ==
    LET c == CatalogueFrom(_indexList, 1, ra, dec, Fx(radius), filterName, <<>>) IN
    /\ _indexList' = c.list
    /\ out' = Call(op, arg, c.err, IF c.err = OK THEN <<c.found>> ELSE NoReturn, NoEngine)
    /\ UNCHANGED <<indexArray, indexWarnings, _solver, _starxy, _numBrightObjects,
                   _isSolved, log_level>>

getCatalogueAt(ra, dec, radius, filterName) ==
    CatalogueAt(ra, dec, radius, filterName, "getCatalogueAt", <<ra, dec, radius, filterName>>)

\* The centre of a match: a point of the footprint of the matched index.
MatchCenter(indexname) == <<IndexFile(indexname).raLo + 10, IndexFile(indexname).decLo + 20>>

\* getCatalogue(radiusInArcsec, filterName): around the centre of the match
getCatalogue(radius, filterName) ==
    IF ~_isSolved
    THEN Answer("getCatalogue", <<radius, filterName>>, ErrNotSolved, NoReturn)
    ELSE LET center == MatchCenter(solver_get_best_match.index) IN
         CatalogueAt(center[1], center[2], radius, filterName,
                     "getCatalogue", <<radius, filterName>>)

\* getCatalogueMetadataFields() if it looked for tag-along columns in every
\* index of the list
getCatalogueMetadataFields_AllIndices ==
    /\ _indexList' = [i \in 1..Len(_indexList) |-> index_reload(_indexList[i])]
    /\ out' = Call("getCatalogueMetadataFields", <<>>, OK,
                   <<UNION {IndexFile(_indexList[i].indexname).tagalong : i \in 1..Len(_indexList)}>>,
                   NoEngine)
    /\ UNCHANGED <<indexArray, indexWarnings, _solver, _starxy, _numBrightObjects,
                   _isSolved, log_level>>

\* getCatalogueMetadataFields(): the tag-along columns of _indexList[0]
getCatalogueMetadataFields ==
    IF Len(_indexList) = 0
    THEN \* _indexList[0] does not exist: the read crashes or yields some index
         \/ Answer("getCatalogueMetadataFields", <<>>, ErrCrash, NoReturn)
         \/ Answer("getCatalogueMetadataFields", <<>>, OK, <<{}>>)
    ELSE /\ _indexList' = [_indexList EXCEPT ![1] = index_reload(_indexList[1])]
         /\ out' = Call("getCatalogueMetadataFields", <<>>, OK,
                        <<IndexFile(_indexList[1].indexname).tagalong>>, NoEngine)
         /\ UNCHANGED <<indexArray, indexWarnings, _solver, _starxy, _numBrightObjects,
                        _isSolved, log_level>>

(***************************************************************************)
(* Specifications                                                          *)
(***************************************************************************)
\* Sky positions (degrees): inside the footprint of index A, outside every
\* footprint, and one outside every footprint whose right ascension is the
\* value NO_POSITION_SET.
Positions == { <<10, 20>>, <<300, -60>>, <<NO_POSITION_SET, -60>> }
\* The WCS guesses handed to solve(wcs, uncertainty).
WcsGuesses == { [ra |-> 10, dec |-> 20, plateScale |-> Fx(2), isFlipped |-> TRUE] }

\* The session around solving: one good and one bad source list, every
\* scale setting, every solve method and every query; no bright limit.
Next ==
    \/ loadIndices
    \/ setImageSize(40, 30)
    \/ \E id \in {4, 5} : setStarlist(id)
    \/ setNumBrightObjects(0)
    \/ \E scale \in {Fx(2), Fx(200)} : setMinimumImageScale(scale)
    \/ setMaximumImageScale(Fx(2))
    \/ \E level \in {-1, 0, 5} : setLogLevel(level)
    \/ \E parity \in {UNKNOWN_PARITY, 3} : setParity(parity)
    \/ reset
    \/ solve
    \/ \E p \in Positions : solveRaDec(p[1], p[2])
    \/ \E wcs \in WcsGuesses : solveWcs(wcs, 0)
    \/ getWcs
    \/ getDistortedWcs(2)
    \/ getMatchedSources("mag")
    \/ getSolvedImageScale
    \/ \E filterName \in {"", "mag", "r"} : getCatalogueForSolvedField(filterName, 5)
    \/ getCatalogue(60, "")
    \/ getCatalogueAt(10, 20, 60, "")
    \/ getCatalogueMetadataFields

Spec == Init /\ [][Next]_vars

\* The session around the star list: every source list and bright limit,
\* the blind solve at the default scales, and the queries that read the field.
NextField ==
    \/ setImageSize(40, 30)
    \/ \E id \in SourceIds : setStarlist(id)
    \/ \E N \in {0, 1, MinObjects, MinObjects + MaxExtra + 1} : setNumBrightObjects(N)
    \/ loadIndices
    \/ reset
    \/ solve
    \/ getWcs
    \/ getDistortedWcs(2)
    \/ \E filterName \in {"", "mag"} : getMatchedSources(filterName)

SpecField == Init /\ [][NextField]_vars

\* The index list of every policy, and the methods that load index data
\* without a solve.
NextLoad ==
    \/ loadIndices
    \/ getCatalogueMetadataFields
    \/ \E radius \in {60, 7200}, filterName \in {"", "mag"} :
          getCatalogueAt(10, 20, radius, filterName)
    \/ getCatalogueAt(60, 10, 60, "mag")
    \/ getCatalogueAt(200, 20, 60, "mag")

SpecLoad == InitLoad /\ [][NextLoad]_vars

\* The WCS guesses and scale uncertainties (percent) of the session below.
WcsGuessesBoth ==
    WcsGuesses \cup { [ra |-> 200, dec |-> 20, plateScale |-> Fx(40), isFlipped |-> FALSE] }
Uncertainties == {-5, 0, 10}

\* The session around the solve with a WCS guess: every guess and
\* uncertainty, on sessions with and without star list, scales and parity
\* set beforehand, solved or not.
NextWcs ==
    \/ setImageSize(40, 30)
    \/ setStarlist(3)
    \/ setMaximumImageScale(Fx(2))
    \/ setParity(UNKNOWN_PARITY)
    \/ reset
    \/ \E wcs \in WcsGuessesBoth, unc \in Uncertainties : solveWcs(wcs, unc)
    \/ getWcs

SpecWcs == Init /\ [][NextWcs]_vars

(***************************************************************************)
(* Properties                                                              *)
(***************************************************************************)
SolveOps == {"solve", "solveRaDec", "solveWcs"}
ResultQueries == {"getWcs", "getDistortedWcs", "getMatchedSources", "getCatalogue",
                  "getCatalogueForSolvedField", "getSolvedImageScale"}
PreconditionErrors == {ErrNoStarlist, ErrNoIndex, ErrAlreadySolved, ErrScaleOrder}

\* C1: whenever the session is not solved, each of getWcs, getDistortedWcs,
\* getMatchedSources, getCatalogue(radius, fieldName),
\* getCatalogueForSolvedField and getSolvedImageScale fails with the "No
\* solution found yet" error and returns nothing.  (A query leaves _isSolved
\* alone, so the flag after the call is the flag the query saw.)
C1_QueriesNeedSolved ==
    (out.op \in ResultQueries /\ ~_isSolved) => (out.err = ErrNotSolved /\ out.ret = NoReturn)

\* C1 witness: a query refused after a solve attempt that ran the engine and
\* found no match.
C1_Witness ==
    /\ out.op = "getCatalogueForSolvedField" /\ out.err = ErrNotSolved
    /\ ~_isSolved /\ _starxy # NULL /\ Len(_solver.indexes) > 0

\* C2: a solve method called on a solved session fails with the "already
\* been found" error without running the engine and leaves it solved; the
\* solved flag is cleared only by reset(), which also drops the star list;
\* and the engine only ever runs for an unsolved session with a star list.
C2_NoSolveWhileSolved ==
    [][ /\ (_isSolved /\ out'.op \in SolveOps)
            => (out'.err = ErrAlreadySolved /\ out'.engine = NoEngine /\ _isSolved')
        /\ (_isSolved /\ ~_isSolved') => (out'.op = "reset" /\ _starxy' = NULL)
        /\ (out'.engine # NoEngine) => (~_isSolved /\ _starxy # NULL)
      ]_vars

\* C2 witness: a position-guided solve refused on a solved session.
C2_Witness == _isSolved /\ out.op = "solveRaDec" /\ out.err = ErrAlreadySolved

\* C3: reset() leaves the session unsolved, without star list, without
\* match, with the bright limit back at "use all stars", and the index list
\* (entries, order, loaded flags) as it was.
C3_Reset ==
    [][ out'.op = "reset"
        => /\ ~_isSolved'
           /\ _starxy' = NULL /\ _solver'.fieldxy = NULL
           /\ _solver'.best_match = NULL /\ ~_solver'.best_match_solves
           /\ _numBrightObjects' = USE_ALL_STARS_FOR_SOLUTION
           /\ _indexList' = _indexList
      ]_vars

\* C3 witness: a reset session both of whose indices are loaded.
C3_Witness ==
    /\ out.op = "reset" /\ Len(_indexList) = 2
    /\ \A i \in 1..Len(_indexList) : _indexList[i].loaded

\* C4: setStarlist fails for an empty list, a list of fewer than 20
\* sources and a list with fewer than 20 valid sources, and a failing
\* setStarlist changes neither the stored star list, the solver (its field
\* and configuration), the bright limit, the solved flag nor the index list.
C4_SetStarlistAtomic ==
    [][ out'.op = "setStarlist"
        => /\ (Len(ValidSources(SourceLists[out'.arg])) < MinObjects) => out'.err # OK
           /\ out'.err # OK
                => UNCHANGED <<_starxy, _solver, _numBrightObjects, _isSolved, _indexList>>
      ]_vars

\* C4 witness: a list with too few valid sources refused while a star list
\* and a bright limit are in place.
C4_Witness ==
    /\ out.op = "setStarlist" /\ out.err = ErrTooFewValid
    /\ _starxy # NULL /\ _numBrightObjects > 0

\* Descending order of flux.
SortedByFlux(f) == \A i \in 1..(Len(f) - 1) : f[i].flux.v >= f[i + 1].flux.v

\* C5: whenever a star list is stored it is in descending order of flux, and
\* with a bright limit n > 0 the field the solver holds is the prefix of the
\* stored list of length min(n, size of the list), also when n exceeds the
\* number of stored stars.
C5_BrightPrefix ==
    (_starxy # NULL)
        => /\ SortedByFlux(_starxy)
           /\ (_numBrightObjects > 0)
                => _solver.fieldxy = SubSeq(_starxy, 1, Min2(_numBrightObjects, Len(_starxy)))

\* The number of entries of the list f that equal the source s.
CountOf(s, f) == Cardinality({i \in 1..Len(f) : f[i] = s})

\* x, y and flux as the stored list must have them, stated on the values.
WellFormedStar(s) ==
    /\ s.x.k = "fin" /\ s.x.v >= 0
    /\ s.y.k = "fin" /\ s.y.v >= 0
    /\ s.flux.k = "fin" /\ s.flux.v > 0

Triple(name) == <<IndexFile(name).indexid, IndexFile(name).healpix, IndexFile(name).hpnside>>

\* The positions of the policy's file list whose file loads.
Loadable == {i \in 1..Len(indexArray) : IndexFile(indexArray[i]).ok}
\* Those of them that are the first with their triple, and the later ones.
FirstSeen == {i \in Loadable : \A j \in Loadable : j < i => Triple(indexArray[j]) # Triple(indexArray[i])}
LaterSeen == Loadable \ FirstSeen
\* The k-th smallest element of the set P of positions.
Nth(P, k) == CHOOSE i \in P : Cardinality({j \in P : j <= i}) = k

\* C7: no two entries of the index list have the same (index id, healpix,
\* nside); the list holds, in the order of the policy's file list, the first
\* loadable file of each triple; every later file of a triple already seen is
\* reported as a duplicate and left out, and the files after it are still
\* processed.
C7_NoDuplicateIndex ==
    /\ \A i, j \in 1..Len(_indexList) :
          i # j => Triple(_indexList[i].indexname) # Triple(_indexList[j].indexname)
    /\ Len(_indexList) = Cardinality(FirstSeen)
    /\ \A k \in 1..Len(_indexList) : _indexList[k].indexname = indexArray[Nth(FirstSeen, k)]
    /\ Len(indexWarnings) = Cardinality(LaterSeen)
    /\ \A k \in 1..Len(indexWarnings) : indexWarnings[k] = indexArray[Nth(LaterSeen, k)]

\* C7 witness: a duplicate in the middle of three files is left out with a
\* warning and the file after it is kept.
C7_Witness ==
    /\ Len(indexArray) = 3 /\ Len(_indexList) = 2
    /\ indexWarnings = <<indexArray[2]>>
    /\ indexArray[2] # indexArray[1]
    /\ _indexList[2].indexname = indexArray[3]

\* C8: with a star list set, at least one index in the list and the session
\* not solved, a solve method whose scale bounds are minimum < maximum when
\* they are checked passes the setup checks, and one whose bounds are
\* minimum >= maximum fails with the scale-ordering error with no index
\* added to the solver, none loaded, and the engine not run.
C8_ScaleOrdering ==
    [][ (out'.op \in SolveOps /\ _starxy # NULL /\ Len(_indexList) > 0 /\ ~_isSolved)
        => IF FxLt(_solver'.funits_lower, _solver'.funits_upper)
           THEN out'.err \notin PreconditionErrors
           ELSE /\ out'.err = ErrScaleOrder
                /\ out'.engine = NoEngine
                /\ _solver'.indexes = _solver.indexes
                /\ _indexList' = _indexList
                /\ ~_isSolved'
      ]_vars

\* C8 witness: a blind solve refused for equal scale bounds.
C8_Witness ==
    /\ out.op = "solve" /\ out.err = ErrScaleOrder
    /\ _solver.funits_lower = _solver.funits_upper

\* The indices of the list whose quad sizes overlap the range the solver s searches.
OfSuitableScale(s) ==
    {i \in 1..Len(_indexList) :
        index_overlaps_scale_range(_indexList[i], QuadSizeLow(s), QuadSizeHigh(s))}

\* C9: a solve attempt that passes the setup checks fails with the "no
\* suitable scale" reason when no index overlaps the quad-size range, and
\* with the "no sky coverage" reason when at least one index overlaps the
\* range but none of those covers the position asked for; a blind solve never
\* reports the sky-coverage reason; either failure leaves the engine not run
\* and the session not solved.
C9_CoverageFailures ==
    [][ (out'.op \in SolveOps /\ _starxy # NULL /\ Len(_indexList) > 0 /\ ~_isSolved
         /\ FxLt(_solver'.funits_lower, _solver'.funits_upper))
        => /\ (OfSuitableScale(_solver') = {}) => out'.err = ErrNoScale
           /\ (out'.op = "solveRaDec" /\ OfSuitableScale(_solver') # {}
               /\ \A i \in OfSuitableScale(_solver') :
                    ~index_is_within_range(_indexList[i], out'.arg[1], out'.arg[2],
                                           QuadSizeHigh(_solver')))
                => out'.err = ErrNoSky
           /\ (out'.op = "solve") => out'.err # ErrNoSky
           /\ (out'.err \in {ErrNoScale, ErrNoSky}) => (out'.engine = NoEngine /\ ~_isSolved')
      ]_vars

\* The latest call ran the engine, which found no match.
NoMatchFound == out.engine # NoEngine /\ ~_solver.best_match_solves

\* C10: a solve in which the engine finds no match returns false without an
\* error and leaves the session unsolved with no match in the solver; right
\* after it every result query is refused as "not solved", and a blind or
\* position-guided solve is not refused by the setup checks.
C10_NoMatchIsNormal ==
    /\ [] ( NoMatchFound
              => /\ out.err = OK /\ out.ret = <<FALSE>>
                 /\ ~_isSolved /\ _solver.best_match = NULL )
    /\ [][ NoMatchFound
            => /\ (out'.op \in ResultQueries) => out'.err = ErrNotSolved
               /\ (out'.op \in {"solve", "solveRaDec"}) => out'.err \notin PreconditionErrors
         ]_vars

\* C10 witness: the engine ran a second time, with no reset in between,
\* after a first run that found no match, and again found none.
C10_Witness ==
    /\ NoMatchFound
    /\ out.engine[1].indexes = <<"A", "A">>

\* C11: from a successful solve to the next reset() the match, the field in
\* the solver it was computed against and the stored star list do not change,
\* whatever other method is called; and getMatchedSources pairs each
\* correspondence entry with the star of the field that was solved.
C11_MatchAndFieldStable ==
    [][ (_isSolved /\ _isSolved')
        => /\ _solver'.best_match = _solver.best_match
           /\ _solver'.fieldxy = _solver.fieldxy
           /\ _starxy' = _starxy
           /\ (out'.op = "getMatchedSources")
                => /\ out'.err # ErrCrash
                   /\ (out'.err = OK)
                        => \A k \in 1..Len(out'.ret[1]) :
                              LET pair == out'.ret[1][k]
                                  solved == solver_get_best_match.tweak_field
                              IN pair.fieldstar <= Len(solved)
                                 /\ pair.source = solved[pair.fieldstar]
      ]_vars

\* C12: with a bright limit n (no larger than the stored star list) the
\* engine is run on the n brightest stored stars only, while the refinement
\* run inside a successful solve and the refinement run by getDistortedWcs
\* are both given every stored star.
C12_RefinementUsesFullField ==
    [][ /\ (out'.engine # NoEngine /\ _numBrightObjects > 0
            /\ _numBrightObjects <= Len(_starxy))
            => /\ _solver'.fieldxy = SubSeq(_starxy, 1, _numBrightObjects)
               /\ out'.engine[1].nfield = _numBrightObjects
        /\ (out'.op \in SolveOps /\ out'.ret = <<TRUE>> /\ _numBrightObjects <= Len(_starxy))
            => /\ _solver'.best_match[1].tweaked
               /\ _solver'.best_match[1].tweak_field = _starxy
        /\ (out'.op = "getDistortedWcs" /\ out'.err = OK)
            => out'.ret[1].tweak_field = _starxy
      ]_vars

\* C13: setNumBrightObjects(N) with N <= 0, setParity with a value that is
\* none of the three parities and setLogLevel with a level outside 0..4 each
\* fail, and the failing call leaves the bright limit, the solver (parity,
\* scale bounds, field), the stored star list, the solved flag, the log level
\* and the index list as they were.
C13_ConfigErrorsNoChange ==
    [][ /\ (out'.op = "setNumBrightObjects" /\ out'.arg <= 0) => out'.err = ErrIllegalN
        /\ (out'.op = "setParity"
            /\ out'.arg \notin {UNKNOWN_PARITY, NORMAL_PARITY, FLIPPED_PARITY})
            => out'.err = ErrParity
        /\ (out'.op = "setLogLevel" /\ (out'.arg < 0 \/ out'.arg > 4)) => out'.err = ErrLogLevel
        /\ (out'.op \in {"setNumBrightObjects", "setParity", "setLogLevel"} /\ out'.err # OK)
            => UNCHANGED <<_numBrightObjects, _solver, _starxy, _isSolved, log_level, _indexList>>
      ]_vars

\* C13 witness: an illegal parity refused on a solved session.
C13_Witness == out.op = "setParity" /\ out.err = ErrParity /\ _isSolved

\* The position a position-guided solve call o was given.
HintRa(o) == IF o.op = "solveRaDec" THEN o.arg[1] ELSE o.arg[1].ra
HintDec(o) == IF o.op = "solveRaDec" THEN o.arg[2] ELSE o.arg[1].dec

\* The entries of the index list that the solve call o, searching with the
\* solver s, has to select: quad sizes overlapping the range searched and,
\* unless o is the blind solve, a footprint within the search radius of the
\* position.
ToSelect(o, s) ==
    {i \in OfSuitableScale(s) :
        o.op = "solve"
        \/ index_is_within_range(_indexList[i], HintRa(o), HintDec(o), QuadSizeHigh(s))}

\* C14: a solve attempt that passes the setup checks hands the solver
\* exactly the indices whose quad sizes overlap the range searched and,
\* unless the solve is blind, whose sky coverage is within the search radius
\* of the position, in index-list order; it loads each of them and loads no
\* other index.
C14_IndexSelection ==
    [][ (out'.op \in SolveOps /\ out'.err \in {OK, ErrNoScale, ErrNoSky})
        => LET sel == ToSelect(out', _solver')
               n == Len(_solver.indexes)
           IN /\ Len(_solver'.indexes) = n + Cardinality(sel)
              /\ \A k \in 1..Cardinality(sel) :
                    _solver'.indexes[n + k] = _indexList[Nth(sel, k)].indexname
              /\ \A i \in 1..Len(_indexList) :
                    _indexList'[i].loaded = (_indexList[i].loaded \/ i \in sel)
      ]_vars

\* C15: the engine is run with exactly the indices the solve attempt itself
\* selected and added: no index added for an earlier attempt is still in
\* the solver, and no index is in it twice.
C15_EngineIndexSet ==
    [][ (out'.engine # NoEngine)
        => LET run == out'.engine[1].indexes
               added == SubSeq(_solver'.indexes, Len(_solver.indexes) + 1, Len(_solver'.indexes))
           IN /\ run = added
              /\ \A i, j \in 1..Len(run) : i # j => run[i] # run[j]
      ]_vars

\* C16: getCatalogueForSolvedField(fieldName, margin) returns, in the order
\* found, exactly the stars of the range query whose projection through the
\* solved WCS succeeds and lies in [-margin, W+margin] x [-margin, H+margin]:
\* none outside the rectangle, and every one inside it.
C16_CatalogueWithinMargin ==
    (out.op = "getCatalogueForSolvedField" /\ out.err = OK)
        => LET match == _solver.best_match[1]
               margin == out.arg[2]
               cands == SearchForSolvedField(match.index)
               inside == {i \in 1..Len(cands) :
                            /\ cands[i].projects
                            /\ -margin <= cands[i].px /\ cands[i].px <= match.imagew + margin
                            /\ -margin <= cands[i].py /\ cands[i].py <= match.imageh + margin}
               got == out.ret[1]
           IN /\ Len(got) = Cardinality(inside)
              /\ \A k \in 1..Len(got) : got[k].star = cands[Nth(inside, k)].star

\* C16 witness: a catalogue for a solved field that holds stars on the edge
\* of the rectangle and leaves out candidates beyond it.
C16_Witness ==
    /\ out.op = "getCatalogueForSolvedField" /\ out.err = OK
    /\ Len(out.ret[1]) = 3
    /\ Len(SearchForSolvedField(_solver.best_match[1].index)) = 8

\* C17: the blind solve runs the engine with no position restriction, also
\* after a position-guided attempt that found no match, and the indices it
\* adds to the solver are those of suitable scale, whatever their sky
\* coverage.
C17_BlindClearsHint ==
    [][ (out'.op = "solve" /\ out'.engine # NoEngine)
        => LET sel == OfSuitableScale(_solver')
               n == Len(_solver.indexes)
           IN /\ ~out'.engine[1].use_radec
              /\ ~_solver'.use_radec
              /\ Len(_solver'.indexes) = n + Cardinality(sel)
              /\ \A k \in 1..Cardinality(sel) :
                    _solver'.indexes[n + k] = _indexList[Nth(sel, k)].indexname
      ]_vars

\* C17 witness: a blind solve run right after a position-guided attempt at
\* (10, 20) that found no match in index A; it adds A and B, B lying far from
\* that position.
C17_Witness ==
    /\ out.op = "solve" /\ out.engine # NoEngine
    /\ _solver.ra = 10 /\ _solver.dec = 20 /\ ~_solver.use_radec
    /\ _solver.indexes = <<"A", "A", "B">>

\* The names of the index list, in order.
IndexNames == [k \in 1..Len(_indexList) |-> _indexList[k].indexname]

\* C18: a configured file whose metadata does not load is left out of the
\* index list (and is not reported as a duplicate), and every configured
\* file that does load, before or after a failing one, is in the list or was
\* reported as a duplicate of a file in the list; the list keeps the
\* configured order.
C18_LoadFailureSkipsFile ==
    /\ \A i \in 1..Len(indexArray) :
          IF IndexFile(indexArray[i]).ok
          THEN \/ \E k \in 1..Len(IndexNames) : IndexNames[k] = indexArray[i]
               \/ /\ \E k \in 1..Len(indexWarnings) : indexWarnings[k] = indexArray[i]
                  /\ \E k \in 1..Len(IndexNames) :
                        Triple(IndexNames[k]) = Triple(indexArray[i])
          ELSE /\ \A k \in 1..Len(IndexNames) : IndexNames[k] # indexArray[i]
               /\ \A k \in 1..Len(indexWarnings) : indexWarnings[k] # indexArray[i]
    /\ Len(IndexNames) + Len(indexWarnings) = Cardinality(Loadable)
    /\ \A k, l \in 1..Len(IndexNames) :
          k < l => \E i, j \in Loadable :
                      i < j /\ indexArray[i] = IndexNames[k] /\ indexArray[j] = IndexNames[l]

\* C18 witness: of three configured files the second does not load, and the
\* first and the third are in the index list.
C18_Witness ==
    /\ Len(indexArray) = 3 /\ ~IndexFile(indexArray[2]).ok
    /\ IndexNames = <<indexArray[1], indexArray[3]>>

\* C19: getMatchedSources, when the tag-along column asked for exists,
\* returns one pair for each field star i with theta[i] >= 0, in the order
\* of the field stars, and none for a field star with theta[i] < 0; the
\* pair's source is field star i, its catalogue member is the reference star
\* theta[i], and with a field name its flux is made from that reference
\* star's value in the column.
C19_MatchedPairs ==
    (out.op = "getMatchedSources" /\ _isSolved)
        => LET match == _solver.best_match[1]
               matched == {i \in 1..match.nfield : match.theta[i] >= 0}
           IN (TagAlongError(match.index, out.arg) = OK)
                => /\ out.err = OK
                   /\ Len(out.ret[1]) = Cardinality(matched)
                   /\ \A k \in 1..Len(out.ret[1]) :
                         LET pair == out.ret[1][k]
                             i == Nth(matched, k)
                         IN /\ pair.fieldstar = i
                            /\ i <= Len(_solver.fieldxy)
                            /\ pair.source = _solver.fieldxy[i]
                            /\ pair.ref = match.theta[i]
                            /\ (out.arg # "")
                                 => pair.flux = <<FluxOfMag(AuxValue(match.index, out.arg,
                                                                     match.theta[i]))>>

\* The stars a catalogue query around (ra, dec) has to return from entry i
\* of the index list on: for each index whose footprint comes within the
\* radius, in the order of the list, each star of it within the radius.
RECURSIVE StarsNear(_, _, _, _, _)
StarsNear(list, i, ra, dec, radius) ==
    IF i > Len(list) THEN <<>>
    ELSE LET stars == startree_search_for(list[i].indexname, ra, dec, radius)
             here == IF index_is_within_range(list[i], ra, dec, radius)
                     THEN [j \in 1..Len(stars) |-> [index |-> list[i].indexname, star |-> stars[j]]]
                     ELSE <<>>
         IN here \o StarsNear(list, i + 1, ra, dec, radius)

C21_MetadataOfFirstIndex ==
    [][ (out'.op = "getCatalogueMetadataFields" /\ Len(_indexList) >= 1)
          => /\ out'.err = OK
             /\ out'.ret = <<IndexFile(_indexList[1].indexname).tagalong>>
             /\ Len(_indexList') = Len(_indexList)
             /\ _indexList'[1] = [indexname |-> _indexList[1].indexname, loaded |-> TRUE]
             /\ \A i \in 2..Len(_indexList) : _indexList'[i] = _indexList[i]
             /\ _solver' = _solver /\ _starxy' = _starxy /\ _isSolved' = _isSolved ]_vars

\* C21 witness: the first index has no tag-along table and a later one has;
\* the answer is the empty list and only the first index is loaded.
C21_Witness ==
    /\ out.op = "getCatalogueMetadataFields" /\ out.err = OK /\ out.ret = <<{}>>
    /\ Len(_indexList) >= 2
    /\ IndexFile(_indexList[1].indexname).tagalong = {}
    /\ IndexFile(_indexList[2].indexname).tagalong # {}
    /\ _indexList[1].loaded /\ ~_indexList[2].loaded

\* C22: a getDistortedWcs call on a solved session with a star list ends
\* either with a distorted WCS or with the "Tweaking failed" error; when it
\* fails so, the session stays solved with the same match, the same field
\* in the solver and the same star list, and a getWcs called next succeeds
\* and a getDistortedWcs called next is again answered with a WCS or the
\* "Tweaking failed" error.
C22_TweakFailureKeepsSolution ==
    [][ /\ (out'.op = "getDistortedWcs" /\ _isSolved /\ _starxy # NULL)
            => /\ out'.err \in {OK, ErrTweak}
               /\ (out'.err = ErrTweak)
                    => /\ out'.ret = NoReturn
                       /\ _isSolved'
                       /\ _solver' = _solver
                       /\ _starxy' = _starxy
        /\ (out.op = "getDistortedWcs" /\ out.err = ErrTweak)
            => /\ _isSolved /\ _solver.best_match # NULL /\ _starxy # NULL
               /\ (out'.op = "getWcs")
                    => (out'.err = OK /\ out'.ret[1].index = _solver.best_match[1].index)
               /\ (out'.op = "getDistortedWcs") => out'.err \in {OK, ErrTweak}
      ]_vars

\* C22 witness: a refinement that failed on a solved session.
C22_Witness ==
    /\ out.op = "getDistortedWcs" /\ out.err = ErrTweak
    /\ _isSolved /\ _solver.best_match # NULL /\ _starxy # NULL

\* The settings of a solver: scale bounds, parity, match threshold, position
\* restriction and image size.
Configuration(s) ==
    [funits_lower |-> s.funits_lower, funits_upper |-> s.funits_upper,
     parity |-> s.parity, logratio_record_threshold |-> s.logratio_record_threshold,
     use_radec |-> s.use_radec,
     field_minx |-> s.field_minx, field_maxx |-> s.field_maxx,
     field_miny |-> s.field_miny, field_maxy |-> s.field_maxy]

\* The settings of a new session: scales from 1e-6 to 3600*360 arcsec per
\* pixel, parity unknown, threshold log(1e12), no position, no image size.
FreshConfiguration ==
    [funits_lower |-> <<0, 1>>, funits_upper |-> <<1296000, 0>>,
     parity |-> 2, logratio_record_threshold |-> 27631,
     use_radec |-> FALSE,
     field_minx |-> 0, field_maxx |-> 0, field_miny |-> 0, field_maxy |-> 0]

\* C23: right after the constructor and right after every reset(), whatever
\* was configured before, the settings are those of a new session (minimum
\* scale 1e-6 strictly below maximum scale 3600*360, parity unknown, match
\* threshold log(1e12), no position restriction), and a reset() that follows
\* a reset() changes nothing.
C23_ResetRestoresDefaults ==
    /\ [](out.op \in {"GlobalAstrometrySolution", "reset"}
            => /\ Configuration(_solver) = FreshConfiguration
               /\ FxLt(_solver.funits_lower, _solver.funits_upper))
    /\ [][ (out.op = "reset" /\ out'.op = "reset")
              => /\ _solver' = _solver /\ _starxy' = _starxy
                 /\ _numBrightObjects' = _numBrightObjects /\ _isSolved' = _isSolved
                 /\ _indexList' = _indexList /\ out' = out ]_vars

\* C23 witness: a reset of a session that had been in use (its first index
\* is loaded, its second is not).
C23_Witness ==
    /\ out.op = "reset" /\ Len(_indexList) = 2
    /\ _indexList[1].loaded /\ ~_indexList[2].loaded
    /\ Configuration(_solver) = FreshConfiguration

\* C24: in a solve with a position, solve(ra, dec) or solve(wcs, ..), that
\* runs the engine, every index the call hands to the solver has a sky
\* footprint within the search radius of (ra, dec), whatever the values of
\* ra and dec; only the solve without a position skips that test.
C24_SkyFilterUnlessBlind ==
    [][ (out'.op \in {"solveRaDec", "solveWcs"} /\ out'.engine # NoEngine)
        => \A k \in (Len(_solver.indexes) + 1)..Len(_solver'.indexes) :
              \A i \in 1..Len(_indexList) :
                 (_indexList[i].indexname = _solver'.indexes[k])
                    => index_is_within_range(_indexList[i], HintRa(out'), HintDec(out'),
                                             QuadSizeHigh(_solver'))
      ]_vars

\* C25: after every successful setStarlist or setNumBrightObjects, in
\* whatever order they come, the solver's field is the stored star list cut
\* to its first n stars, n the bright limit in force (the whole list without
\* a limit, and at most the stars there are); setStarlist keeps the limit set
\* before it, also one set while there was no star list, and
\* setNumBrightObjects leaves the stored star list as it is.
C25_BrightLimitInForce ==
    [][ (out'.op \in {"setStarlist", "setNumBrightObjects"} /\ out'.err = OK)
        => /\ (out'.op = "setStarlist")
                => (_numBrightObjects' = _numBrightObjects /\ _starxy' = StoredField[out'.arg])
           /\ (out'.op = "setNumBrightObjects")
                => (_numBrightObjects' = out'.arg /\ _starxy' = _starxy)
           /\ (_starxy' # NULL)
                => _solver'.fieldxy =
                      IF _numBrightObjects' = USE_ALL_STARS_FOR_SOLUTION THEN _starxy'
                      ELSE SubSeq(_starxy', 1, Min2(_numBrightObjects', Len(_starxy')))
      ]_vars

\* C26: getCatalogueForSolvedField called with a field name that the matched
\* index has no tag-along column for does not fail: it returns the in-bounds
\* catalogue stars, each without flux.
C26_MissingColumnLeavesFluxUnset ==
    (/\ out.op = "getCatalogueForSolvedField" /\ _isSolved
     /\ out.arg[1] # ""
     /\ out.arg[1] \notin IndexFile(_solver.best_match[1].index).tagalong)
        => LET match == _solver.best_match[1]
               kept == KeptFrom(SearchForSolvedField(match.index), 1, match, out.arg[2])
           IN /\ out.err = OK
              /\ out.ret = <<[i \in 1..Len(kept) |-> [star |-> kept[i], flux |-> <<>>]]>>

\* C27: a solve method tests its preconditions in the order star list set,
\* index list not empty, not solved, minimum scale below maximum scale (the
\* scales as the method itself has set them), and fails with the message of
\* the first one that does not hold, also when several do not hold; it fails
\* with none of these messages when all hold; the four messages differ.
C27_PreconditionOrder ==
    /\ [](Cardinality({ErrNoStarlist, ErrNoIndex, ErrAlreadySolved, ErrScaleOrder}) = 4)
    /\ [][ (out'.op \in SolveOps)
             => IF _starxy = NULL THEN out'.err = ErrNoStarlist
                ELSE IF Len(_indexList) = 0 THEN out'.err = ErrNoIndex
                ELSE IF _isSolved THEN out'.err = ErrAlreadySolved
                ELSE IF ~FxLt(_solver'.funits_lower, _solver'.funits_upper)
                     THEN out'.err = ErrScaleOrder
                ELSE out'.err \notin {ErrNoStarlist, ErrNoIndex, ErrAlreadySolved, ErrScaleOrder}
         ]_vars

\* C27 witness: a solve refused for the missing star list on a session that
\* has no index and whose scale bounds are out of order as well.
C27_Witness ==
    /\ out.op \in SolveOps /\ out.err = ErrNoStarlist
    /\ _starxy = NULL /\ Len(_indexList) = 0
    /\ ~FxLt(_solver.funits_lower, _solver.funits_upper)

\* C28: in every reachable state a solved session has a star list, so that
\* getDistortedWcs never fails with "Starlist isn't set".
C28_SolvedHasField ==
    /\ (_isSolved => _starxy # NULL)
    /\ (out.op = "getDistortedWcs" => out.err # ErrStarlistUnset)

\* C28 witness: getDistortedWcs answered on a solved session whose star
\* list was replaced after the solve.
C28_Witness ==
    /\ _isSolved /\ out.op = "getDistortedWcs" /\ out.err = OK
    /\ Len(_starxy) # _solver.best_match[1].nfield

\* C29: a solve method, blind, with a position or with a WCS guess, that
\* fails with one of the four precondition errors leaves the session as it
\* was: star list, solved flag, match, scale bounds, parity, position
\* restriction, the solver's field and its indices, and the index list.
C29_RejectedSolveChangesNothing ==
    [][ (out'.op \in SolveOps /\ out'.err \in PreconditionErrors)
        => /\ _starxy' = _starxy /\ _isSolved' = _isSolved
           /\ _solver'.best_match = _solver.best_match
           /\ _solver'.funits_lower = _solver.funits_lower
           /\ _solver'.funits_upper = _solver.funits_upper
           /\ _solver'.parity = _solver.parity
           /\ _solver'.use_radec = _solver.use_radec
           /\ (_solver.use_radec => (_solver'.ra = _solver.ra /\ _solver'.dec = _solver.dec))
           /\ _solver'.fieldxy = _solver.fieldxy
           /\ _solver'.indexes = _solver.indexes
           /\ _indexList' = _indexList /\ _numBrightObjects' = _numBrightObjects
      ]_vars

C31_StarlistsReleased ==
    [][ (out'.op = "setStarlist")
        => LET use == out'.ret[1] IN
           /\ use.allocated = use.installed + use.released
           /\ (out'.err = OK)
                => /\ use.installed = 1
                   /\ use.oldReleased = (IF _starxy # NULL THEN 1 ELSE 0)
           /\ (out'.err # OK) => (use.installed = 0 /\ use.oldReleased = 0)
      ]_vars

\* C32: getCatalogueForSolvedField called with a field name and answered
\* returns one source for each star found whose projection succeeds and
\* lies within the image widened by the margin, in the order found, and the
\* k-th source has the flux 10^(-mag/2.5) made of the magnitude the column
\* holds for the k-th of these stars.
C32_FluxOfOwnStar ==
    (out.op = "getCatalogueForSolvedField" /\ out.err = OK /\ out.arg[1] # "")
        => LET match == _solver.best_match[1]
               margin == out.arg[2]
               cands == SearchForSolvedField(match.index)
               kept == {i \in 1..Len(cands) :
                           /\ cands[i].projects
                           /\ cands[i].px >= -margin /\ cands[i].px <= match.imagew + margin
                           /\ cands[i].py >= -margin /\ cands[i].py <= match.imageh + margin}
           IN /\ Len(out.ret[1]) = Cardinality(kept)
              /\ \A k \in 1..Len(out.ret[1]) :
                    LET star == cands[Nth(kept, k)].star IN
                    /\ out.ret[1][k].star = star
                    /\ out.ret[1][k].flux = <<[base |-> 10,
                                               exp_num |-> -(10 * AuxValue(match.index, out.arg[1], star)),
                                               exp_den |-> 25]>>

\* C32 witness: three of eight stars found are kept, with stars dropped
\* before the first and between the others, and the fluxes are set.
C32_Witness ==
    /\ out.op = "getCatalogueForSolvedField" /\ out.err = OK /\ out.arg[1] = "mag"
    /\ Len(SearchForSolvedField(_solver.best_match[1].index)) = 8
    /\ Len(out.ret[1]) = 3
    /\ out.ret[1][1].star = 2 /\ out.ret[1][3].star = 8
    /\ out.ret[1][1].flux # <<>>

\* C33: on a session with an empty index list (no configured index file
\* could be loaded) no method reads an entry the list does not have:
\* getCatalogueMetadataFields returns an empty list or throws an exception
\* of its own, and does not crash; a solve method on such a session with a
\* star list fails with the "No index files loaded yet" error.
C33_IndexListInBounds ==
    /\ (out.op = "getCatalogueMetadataFields" /\ Len(_indexList) = 0)
          => /\ out.err # ErrCrash
             /\ (out.err = OK) => (out.ret = <<{}>>)
    /\ (out.op \in SolveOps /\ Len(_indexList) = 0 /\ _starxy # NULL)
          => (out.err = ErrNoIndex /\ out.engine = NoEngine)

====
